---- MODULE Spec2Model ----
(***************************************************************************)
(* Model of the ranking_engine package: block scoring (scoring.py), weight *)
(* redistribution (weights.py) and the two-phase ranking (ranking.py).     *)
(*                                                                         *)
(* Python floats are modelled as exact rationals [n, d] in lowest terms    *)
(* with d > 0.  Every decimal literal of config.py is the rational it      *)
(* denotes (0.2 = 1/5, 0.01 = 1/100, 1e-6 = 1/1000000).                    *)
(***************************************************************************)
EXTENDS Integers, Sequences, FiniteSets, TLC

VARIABLES requirements, block_type, block_score,
          mandatory, preferred, tasks, weights,
          items, scores, pc

vars == <<requirements, block_type, block_score,
          mandatory, preferred, tasks, weights,
          items, scores, pc>>

----------------------------------------------------------------------------
(* Bounds of the explored inputs *)

MaxLen == 3
MaxWLen == 2
MaxItems == 3

----------------------------------------------------------------------------
(* Rational arithmetic standing for float arithmetic *)

Abs(x) == IF x < 0 THEN 0 - x ELSE x

RECURSIVE GCD(_, _)
GCD(a, b) == IF b = 0 THEN a ELSE GCD(b, a % b)

Frac(n, d) ==
    LET k == GCD(Abs(n), d)
    IN [n |-> n \div k, d |-> d \div k]

Zero == [n |-> 0, d |-> 1]

FromInt(i) == [n |-> i, d |-> 1]

FAdd(a, b) ==
    LET k == GCD(a.d, b.d)
    IN Frac(a.n * (b.d \div k) + b.n * (a.d \div k), a.d * (b.d \div k))

FNeg(a) == [n |-> 0 - a.n, d |-> a.d]

FSub(a, b) == FAdd(a, FNeg(b))

FMul(a, b) ==
    LET k1 == GCD(Abs(a.n), b.d)
        k2 == GCD(Abs(b.n), a.d)
    IN IF a.n = 0 \/ b.n = 0 THEN Zero
       ELSE [n |-> (a.n \div k1) * (b.n \div k2),
             d |-> (a.d \div k2) * (b.d \div k1)]

FDivInt(a, i) == FMul(a, Frac(1, i))

FAbs(a) == [n |-> Abs(a.n), d |-> a.d]

(* n1/d1 < n2/d2 for non-negative numerators, by comparing integer parts  *)
(* and then the reciprocals of the remainders.                             *)
RECURSIVE PosLess(_, _, _, _)
PosLess(n1, d1, n2, d2) ==
    LET q1 == n1 \div d1
        q2 == n2 \div d2
        r1 == n1 % d1
        r2 == n2 % d2
    IN IF q1 # q2 THEN q1 < q2
       ELSE IF r2 = 0 THEN FALSE
       ELSE IF r1 = 0 THEN TRUE
       ELSE PosLess(d2, r2, d1, r1)

FLess(a, b) ==
    IF a.n < 0 /\ b.n >= 0 THEN TRUE
    ELSE IF a.n >= 0 /\ b.n < 0 THEN FALSE
    ELSE IF a.n >= 0 THEN PosLess(a.n, a.d, b.n, b.d)
    ELSE PosLess(0 - b.n, b.d, 0 - a.n, a.d)

FLeq(a, b) == ~FLess(b, a)

----------------------------------------------------------------------------
(* config.py *)

GREEN_THRESHOLD == 70
YELLOW_THRESHOLD == 30

GREEN_WEIGHT == Frac(1, 1)
YELLOW_WEIGHT == Frac(1, 2)
RED_WEIGHT == Frac(1, 100)

MANDATORY_WEIGHT == Frac(1, 1)
PREFERRED_WEIGHT == Frac(1, 5)
TASKS_WEIGHT == Frac(1, 5)

EPSILON == Frac(1, 1000000)

----------------------------------------------------------------------------
(* models.py *)

BlockType == {"mandatory", "preferred", "tasks"}

Requirement(name, match_percent) ==
    [name |-> name, match_percent |-> match_percent]

RequirementDetail(name, percent, color) ==
    [name |-> name, percent |-> percent, color |-> color]

BlockScore(color_score, percent_score, g, y, r, details, g_avg, y_avg, r_avg) ==
    [color_score |-> color_score, percent_score |-> percent_score,
     g |-> g, y |-> y, r |-> r, details |-> details,
     g_avg |-> g_avg, y_avg |-> y_avg, r_avg |-> r_avg]

----------------------------------------------------------------------------
(* scoring.py *)

Min(a, b) == IF a < b THEN a ELSE b
Max(a, b) == IF a > b THEN a ELSE b

_clamp(value, min_value, max_value) == Max(min_value, Min(max_value, value))

_determine_color_strict(percent) ==
    IF percent > GREEN_THRESHOLD THEN "GREEN"
    ELSE IF percent >= YELLOW_THRESHOLD THEN "YELLOW"
    ELSE "RED"

_determine_color(percent) ==
    IF percent >= GREEN_THRESHOLD THEN "GREEN"
    ELSE IF percent >= YELLOW_THRESHOLD THEN "YELLOW"
    ELSE "RED"

RECURSIVE SumSeq(_)
SumSeq(s) == IF s = <<>> THEN 0 ELSE Head(s) + SumSeq(Tail(s))

_average(values) ==
    IF values = <<>> THEN Zero ELSE Frac(SumSeq(values), Len(values))

(* The bucketing loop of calculate_block_score: one pass, in input order *)
RECURSIVE Bucket(_, _, _)
Bucket(reqs, i, acc) ==
    IF i > Len(reqs) THEN acc
    ELSE LET percent == _clamp(reqs[i].match_percent, 0, 100)
             color == _determine_color(percent)
             d == Append(acc.details,
                         RequirementDetail(reqs[i].name, percent, color))
         IN Bucket(reqs, i + 1,
              IF color = "GREEN"
              THEN [acc EXCEPT !.details = d, !.g = @ + 1,
                               !.green_percents = Append(@, percent)]
              ELSE IF color = "YELLOW"
              THEN [acc EXCEPT !.details = d, !.y = @ + 1,
                               !.yellow_percents = Append(@, percent)]
              ELSE [acc EXCEPT !.details = d, !.r = @ + 1,
                               !.red_percents = Append(@, percent)])

EmptyBuckets ==
    [g |-> 0, y |-> 0, r |-> 0, details |-> <<>>,
     green_percents |-> <<>>, yellow_percents |-> <<>>, red_percents |-> <<>>]

ZeroBlockScore == BlockScore(Zero, Zero, 0, 0, 0, <<>>, Zero, Zero, Zero)

ColorScoreNoShortCircuit(g, y, r, kind) ==
    LET n == g + y + r
        linear == FAdd(FAdd(FromInt(g), FMul(YELLOW_WEIGHT, FromInt(y))),
                       FMul(RED_WEIGHT, FromInt(r)))
        quadratic == FAdd(FMul(FAdd(FromInt(g), FMul(YELLOW_WEIGHT, FromInt(y))),
                               FromInt(g + y)),
                          FMul(RED_WEIGHT, FromInt(r)))
    IN IF kind = "mandatory" THEN FDivInt(quadratic, n * n)
       ELSE FDivInt(linear, n)

ColorScoreLinearMandatory(g, y, r, kind) ==
    IF g + y = 0 THEN Zero
    ELSE LET n == g + y + r
             g_plus_half_y == FAdd(FromInt(g), FMul(YELLOW_WEIGHT, FromInt(y)))
             numerator == FAdd(FMul(g_plus_half_y, FromInt(g + y)),
                               FMul(RED_WEIGHT, FromInt(r)))
         IN FDivInt(numerator, n)

(* Phase 1 *)
ColorScore(g, y, r, kind) ==
    IF g + y = 0 THEN Zero
    ELSE LET n == g + y + r
         IN IF kind = "mandatory"
            THEN LET g_plus_half_y ==
                         FAdd(FromInt(g), FMul(YELLOW_WEIGHT, FromInt(y)))
                     g_plus_y == FromInt(g + y)
                     numerator == FAdd(FMul(g_plus_half_y, g_plus_y),
                                       FMul(RED_WEIGHT, FromInt(r)))
                 IN FDivInt(numerator, n * n)
            ELSE LET numerator ==
                         FAdd(FAdd(FromInt(g), FMul(YELLOW_WEIGHT, FromInt(y))),
                              FMul(RED_WEIGHT, FromInt(r)))
                 IN FDivInt(numerator, n)

(* Phase 2 *)
PercentScore(g_avg, y_avg, r_avg, color_score) ==
    LET g_norm == FDivInt(g_avg, 100)
        y_norm == FDivInt(y_avg, 100)
        r_norm == FDivInt(r_avg, 100)
    IN FMul(FAdd(FAdd(g_norm, FMul(YELLOW_WEIGHT, y_norm)),
                 FMul(RED_WEIGHT, r_norm)),
            color_score)

calculate_block_score(reqs, kind) ==
    IF reqs = <<>> THEN ZeroBlockScore
    ELSE LET b == Bucket(reqs, 1, EmptyBuckets)
             n == b.g + b.y + b.r
         IN IF n = 0 THEN ZeroBlockScore
            ELSE LET color_score == ColorScore(b.g, b.y, b.r, kind)
                     g_avg == _average(b.green_percents)
                     y_avg == _average(b.yellow_percents)
                     r_avg == _average(b.red_percents)
                     percent_score == PercentScore(g_avg, y_avg, r_avg, color_score)
                 IN BlockScore(color_score, percent_score, b.g, b.y, b.r,
                               b.details, g_avg, y_avg, r_avg)

----------------------------------------------------------------------------
(* weights.py *)

Weights(m, p, t) == [mandatory |-> m, preferred |-> p, tasks |-> t]

redistribute_weights_no_move(mandatory_, preferred_, tasks_) ==
    LET w0 == Weights(MANDATORY_WEIGHT, PREFERRED_WEIGHT, TASKS_WEIGHT)
        w1 == IF mandatory_ = <<>> THEN [w0 EXCEPT !.mandatory = Zero] ELSE w0
    IN IF preferred_ = <<>> /\ tasks_ = <<>>
       THEN [w1 EXCEPT !.mandatory = FAdd(FAdd(w1.mandatory, w1.preferred), w1.tasks),
                       !.preferred = Zero, !.tasks = Zero]
       ELSE IF preferred_ = <<>>
       THEN [w1 EXCEPT !.preferred = Zero]
       ELSE IF tasks_ = <<>>
       THEN [w1 EXCEPT !.preferred = FAdd(w1.preferred, w1.tasks), !.tasks = Zero]
       ELSE w1

redistribute_weights_tasks_first(mandatory_, preferred_, tasks_) ==
    LET w0 == Weights(MANDATORY_WEIGHT, PREFERRED_WEIGHT, TASKS_WEIGHT)
        w1 == IF mandatory_ = <<>> THEN [w0 EXCEPT !.mandatory = Zero] ELSE w0
    IN IF tasks_ = <<>>
       THEN [w1 EXCEPT !.preferred = FAdd(w1.preferred, w1.tasks), !.tasks = Zero]
       ELSE IF preferred_ = <<>>
       THEN [w1 EXCEPT !.tasks = FAdd(w1.tasks, w1.preferred), !.preferred = Zero]
       ELSE w1

redistribute_weights(mandatory_, preferred_, tasks_) ==
    LET w0 == Weights(MANDATORY_WEIGHT, PREFERRED_WEIGHT, TASKS_WEIGHT)
        mandatory_empty == mandatory_ = <<>>
        preferred_empty == preferred_ = <<>>
        tasks_empty == tasks_ = <<>>
        w1 == IF mandatory_empty THEN [w0 EXCEPT !.mandatory = Zero] ELSE w0
    IN IF preferred_empty /\ tasks_empty
       THEN [w1 EXCEPT !.mandatory = FAdd(FAdd(w1.mandatory, w1.preferred), w1.tasks),
                       !.preferred = Zero, !.tasks = Zero]
       ELSE IF preferred_empty
       THEN [w1 EXCEPT !.tasks = FAdd(w1.tasks, w1.preferred), !.preferred = Zero]
       ELSE IF tasks_empty
       THEN [w1 EXCEPT !.preferred = FAdd(w1.preferred, w1.tasks), !.tasks = Zero]
       ELSE w1

----------------------------------------------------------------------------
(* ranking.py *)

ItemInput(item_id, mandatory_, preferred_, tasks_) ==
    [item_id |-> item_id, mandatory |-> mandatory_,
     preferred |-> preferred_, tasks |-> tasks_]

None == 0

(* Steps 1-3 of rank_items for one item; rank is still unset *)
ScoreItem(item) ==
    LET mandatory_score == calculate_block_score(item.mandatory, "mandatory")
        preferred_score == calculate_block_score(item.preferred, "preferred")
        tasks_score == calculate_block_score(item.tasks, "tasks")
        w == redistribute_weights(item.mandatory, item.preferred, item.tasks)
        final_color_score ==
            FAdd(FAdd(FMul(w.mandatory, mandatory_score.color_score),
                      FMul(w.preferred, preferred_score.color_score)),
                 FMul(w.tasks, tasks_score.color_score))
        final_percent_score ==
            FAdd(FAdd(FMul(w.mandatory, mandatory_score.percent_score),
                      FMul(w.preferred, preferred_score.percent_score)),
                 FMul(w.tasks, tasks_score.percent_score))
    IN [item_id |-> item.item_id,
        mandatory |-> mandatory_score,
        preferred |-> preferred_score,
        tasks |-> tasks_score,
        final_color_score |-> final_color_score,
        final_percent_score |-> final_percent_score,
        used_weights |-> w,
        rank |-> None]

_compare(a, b) ==
    LET color_diff == FSub(b.final_color_score, a.final_color_score)
        percent_diff == FSub(b.final_percent_score, a.final_percent_score)
    IN IF FLess(EPSILON, FAbs(color_diff))
       THEN (IF FLess(Zero, color_diff) THEN 0 - 1 ELSE 1)
       ELSE IF FLess(Zero, percent_diff) THEN 0 - 1
       ELSE IF FLess(percent_diff, Zero) THEN 1
       ELSE 0

(* cmp_to_key: K(a) < K(b) iff _compare(a, b) < 0 *)
ISLT(a, b) == _compare(a, b) < 0

(* list.sort on fewer than 64 elements: the first natural run is found by  *)
(* count_run (a strictly descending run is reversed in place) and the rest *)
(* is inserted by binary insertion.                                        *)
RECURSIVE RunEnd(_, _, _)
RunEnd(s, i, descending) ==
    IF i = Len(s) THEN i
    ELSE IF ISLT(s[i + 1], s[i]) = descending THEN RunEnd(s, i + 1, descending)
    ELSE i

count_run(s) ==
    LET descending == ISLT(s[2], s[1])
    IN [n |-> RunEnd(s, 2, descending), descending |-> descending]

reverse_slice(s, n) ==
    [i \in 1..Len(s) |-> IF i <= n THEN s[n + 1 - i] ELSE s[i]]

RECURSIVE BinarySearch(_, _, _, _)
BinarySearch(s, pivot, l, r) ==
    IF l >= r THEN l
    ELSE LET p == l + ((r - l) \div 2)
         IN IF ISLT(pivot, s[p]) THEN BinarySearch(s, pivot, l, p)
            ELSE BinarySearch(s, pivot, p + 1, r)

RECURSIVE binarysort(_, _)
binarysort(s, start) ==
    IF start > Len(s) THEN s
    ELSE LET pivot == s[start]
             l == BinarySearch(s, pivot, 1, start)
         IN binarysort(SubSeq(s, 1, l - 1) \o <<pivot>> \o SubSeq(s, l, start - 1)
                         \o SubSeq(s, start + 1, Len(s)),
                       start + 1)

list_sort(s) ==
    IF Len(s) < 2 THEN s
    ELSE LET run == count_run(s)
             s1 == IF run.descending THEN reverse_slice(s, run.n) ELSE s
         IN binarysort(s1, run.n + 1)

AssignRanksFromZero(s) == [idx \in 1..Len(s) |-> [s[idx] EXCEPT !.rank = idx - 1]]

AssignRanks(s) == [idx \in 1..Len(s) |-> [s[idx] EXCEPT !.rank = idx]]

rank_items(its) ==
    AssignRanks(list_sort([i \in 1..Len(its) |-> ScoreItem(its[i])]))

----------------------------------------------------------------------------
(* Inputs of the block scorer: every list of at most MaxLen requirements    *)
(* over percentages around the thresholds and outside [0,100].             *)

Percents == {0 - 5, 0, 29, 30, 69, 70, 100, 105}

SeqsUpTo(S, k) == UNION {[1..m -> S] : m \in 0..k}

ReqList(ps) == [i \in 1..Len(ps) |-> Requirement(i, ps[i])]

NoScore == [none |-> TRUE]

InitScore ==
    /\ requirements \in {ReqList(ps) : ps \in SeqsUpTo(Percents, MaxLen)}
    /\ block_type \in BlockType
    /\ block_score = NoScore
    /\ mandatory = <<>> /\ preferred = <<>> /\ tasks = <<>>
    /\ weights = NoScore
    /\ items = <<>> /\ scores = <<>>
    /\ pc = "start"

CalculateBlockScore ==
    /\ pc = "start"
    /\ block_score' = calculate_block_score(requirements, block_type)
    /\ pc' = "scored"
    /\ UNCHANGED <<requirements, block_type, mandatory, preferred, tasks,
                   weights, items, scores>>

NextScore == CalculateBlockScore

SpecScore == InitScore /\ [][NextScore]_vars


----------------------------------------------------------------------------
(* Inputs of redistribute_weights: three short requirement lists *)

WeightPercents == {20, 80}

InitWeights ==
    /\ mandatory \in {ReqList(ps) : ps \in SeqsUpTo(WeightPercents, MaxWLen)}
    /\ preferred \in {ReqList(ps) : ps \in SeqsUpTo(WeightPercents, MaxWLen)}
    /\ tasks \in {ReqList(ps) : ps \in SeqsUpTo(WeightPercents, MaxWLen)}
    /\ weights = NoScore
    /\ requirements = <<>> /\ block_type = "mandatory" /\ block_score = NoScore
    /\ items = <<>> /\ scores = <<>>
    /\ pc = "start"

RedistributeWeights ==
    /\ pc = "start"
    /\ weights' = redistribute_weights(mandatory, preferred, tasks)
    /\ pc' = "weighted"
    /\ UNCHANGED <<requirements, block_type, block_score, mandatory, preferred,
                   tasks, items, scores>>

NextWeights == RedistributeWeights

SpecWeights == InitWeights /\ [][NextWeights]_vars

----------------------------------------------------------------------------
(* Inputs of rank_items: collections of at most MaxItems items, item i     *)
(* carrying item_id i, each item one of the shapes below.  ShapeA, ShapeB  *)
(* and ShapeC have final colour scores 19087/35000 < 17451/32000 <         *)
(* 10307/18900 whose neighbours are within EPSILON of each other while the *)
(* outer two are not; ShapeA and ShapeB have the same final percent score. *)

Rep(p, k) == [i \in 1..k |-> p]

ShapeA == <<Rep(70, 2) \o Rep(30, 6) \o Rep(0, 2), <<70, 77, 56>> \o Rep(0, 4), <<>> >>
ShapeB == <<Rep(79, 2) \o Rep(34, 5) \o <<0>>, <<56>> \o Rep(0, 3), <<>> >>
ShapeC == <<<<70>> \o Rep(30, 5) \o Rep(0, 3), Rep(70, 3) \o Rep(30, 4), <<>> >>
ShapeFull == << <<100, 100>>, <<>>, <<>> >>
ShapeHigh == << <<80, 80>>, <<>>, <<>> >>
ShapeHalf == << <<100, 0>>, <<>>, <<>> >>
ShapeEmpty == << <<>>, <<>>, <<>> >>
ShapeMixed == << <<80>>, <<50>>, <<10>> >>

Shapes == {ShapeA, ShapeB, ShapeC, ShapeFull, ShapeHigh, ShapeHalf,
           ShapeEmpty, ShapeMixed}

ItemOf(i, shape) ==
    ItemInput(i, ReqList(shape[1]), ReqList(shape[2]), ReqList(shape[3]))

InitRank ==
    /\ items \in {[i \in 1..Len(sh) |-> ItemOf(i, sh[i])] :
                     sh \in SeqsUpTo(Shapes, MaxItems)}
    /\ scores = <<>>
    /\ requirements = <<>> /\ block_type = "mandatory" /\ block_score = NoScore
    /\ mandatory = <<>> /\ preferred = <<>> /\ tasks = <<>>
    /\ weights = NoScore
    /\ pc = "start"

RankItems ==
    /\ pc = "start"
    /\ scores' = rank_items(items)
    /\ pc' = "ranked"
    /\ UNCHANGED <<requirements, block_type, block_score, mandatory, preferred,
                   tasks, weights, items>>

NextRank == RankItems

SpecRank == InitRank /\ [][NextRank]_vars

(* Default specification: the three entry points on one input each *)
Init == InitScore \/ InitWeights \/ InitRank

Next == CalculateBlockScore \/ RedistributeWeights \/ RankItems

Spec == Init /\ [][Next]_vars

----------------------------------------------------------------------------
(* Properties of rank_items (SpecRank) *)

Ranked == pc = "ranked"

ColorGreaterBeyondEps(a, b) ==
    FLess(EPSILON, FSub(a.final_color_score, b.final_color_score))

ColorWithinEps(a, b) ==
    FLeq(FAbs(FSub(a.final_color_score, b.final_color_score)), EPSILON)

(* C1: in the returned sequence, of two items whose final_color_score      *)
(* differ by more than EPSILON the one with the larger final_color_score   *)
(* comes first.                                                            *)
C1_LargerColorFirst ==
    Ranked => \A i, j \in DOMAIN scores :
                 ColorGreaterBeyondEps(scores[i], scores[j]) => i < j

(* C2: in the returned sequence, of two items whose final_color_score are  *)
(* within EPSILON the one with the strictly greater final_percent_score    *)
(* comes first.                                                            *)
C2_GreaterPercentFirstOnTie ==
    Ranked => \A i, j \in DOMAIN scores :
                 (/\ ColorWithinEps(scores[i], scores[j])
                  /\ FLess(scores[j].final_percent_score,
                           scores[i].final_percent_score)) => i < j

(* C3: two items whose final_color_score are within EPSILON and whose      *)
(* final_percent_score are identical keep their input order (item_id is    *)
(* the input position).                                                    *)
C3_StableOnFullTie ==
    Ranked => \A i, j \in DOMAIN scores :
                 (/\ i < j
                  /\ ColorWithinEps(scores[i], scores[j])
                  /\ scores[i].final_percent_score = scores[j].final_percent_score)
                 => scores[i].item_id < scores[j].item_id

(* C4: rank_items returns one record per input item, the output item_ids   *)
(* are a permutation of the input item_ids, and the record at position i   *)
(* has rank i.                                                             *)
C4_RanksAreOneToK ==
    Ranked => /\ Len(scores) = Len(items)
              /\ \A id \in {items[i].item_id : i \in DOMAIN items} :
                    Cardinality({i \in DOMAIN scores : scores[i].item_id = id})
                      = Cardinality({i \in DOMAIN items : items[i].item_id = id})
              /\ \A i \in DOMAIN scores : scores[i].rank = i

C4_Witness ==
    /\ Ranked
    /\ Len(items) = MaxItems
    /\ \E i \in DOMAIN scores : scores[i].item_id # i

----------------------------------------------------------------------------
(* Properties of redistribute_weights (SpecWeights) *)

Weighted == pc = "weighted"

WeightSum == FAdd(FAdd(weights.mandatory, weights.preferred), weights.tasks)

Budget == FAdd(FAdd(MANDATORY_WEIGHT, PREFERRED_WEIGHT), TASKS_WEIGHT)

C6_EmptyMandatoryWeighsZero ==
    (Weighted /\ mandatory = <<>>) => weights.mandatory = Zero

(* C10: for each of the 8 emptiness combinations the returned weights are  *)
(* those of the stated rules from the defaults (1.0, 0.2, 0.2).            *)
ExpectedWeights(mandatory_empty, preferred_empty, tasks_empty) ==
    LET m0 == IF mandatory_empty THEN Zero ELSE Frac(1, 1)
    IN IF preferred_empty /\ tasks_empty
       THEN Weights(FAdd(m0, Frac(2, 5)), Zero, Zero)
       ELSE IF preferred_empty THEN Weights(m0, Zero, Frac(2, 5))
       ELSE IF tasks_empty THEN Weights(m0, Frac(2, 5), Zero)
       ELSE Weights(m0, Frac(1, 5), Frac(1, 5))

----------------------------------------------------------------------------
(* Properties of calculate_block_score (SpecScore) *)

Scored == pc = "scored"

One == FromInt(1)

InUnit(x) == FLeq(Zero, x) /\ FLeq(x, One)

(* C7 as stated: color_score and percent_score are both in [0,1]. *)
C7_ScoresInUnitInterval ==
    Scored => InUnit(block_score.color_score) /\ InUnit(block_score.percent_score)

(* C7 amended: color_score is in [0,1] and percent_score is in             *)
(* [0, 1.3479 * color_score], 1.3479 = 1 + 0.5 * 0.69 + 0.01 * 0.29 being  *)
(* the largest value of the tier-average form; percent_score can exceed 1. *)
MaxTierForm == Frac(13479, 10000)

C7_ColorInUnitPercentBelowTierForm ==
    Scored => /\ InUnit(block_score.color_score)
              /\ FLeq(Zero, block_score.percent_score)
              /\ FLeq(block_score.percent_score,
                      FMul(MaxTierForm, block_score.color_score))

C7_Witness ==
    /\ Scored
    /\ FLess(One, block_score.percent_score)
    /\ InUnit(block_score.color_score)

(* C8: color_score = percent_score = 0 for an empty list and for a         *)
(* non-empty list whose clamped percentages are all Low; percent_score is  *)
(* 0 whenever color_score is 0.                                            *)
C8_ZeroOnEmptyOrAllLow ==
    Scored =>
      /\ (\A i \in DOMAIN requirements : requirements[i].match_percent < 30)
            => (block_score.color_score = Zero /\ block_score.percent_score = Zero)
      /\ block_score.color_score = Zero => block_score.percent_score = Zero

C8_Witness ==
    /\ Scored
    /\ requirements # <<>>
    /\ \A i \in DOMAIN requirements : requirements[i].match_percent = 29
    /\ block_score.r = Len(requirements)
    /\ block_score.color_score = Zero

(* C9: g + y + r = n = length of the list, there is one detail per         *)
(* requirement in input order, and the tier of a requirement is decided by *)
(* its percentage clamped to [0,100]: High iff >= 70, Partial iff in       *)
(* [30,70), Low iff < 30.                                                  *)
ClampedPercent(p) == IF p < 0 THEN 0 ELSE IF p > 100 THEN 100 ELSE p

Tier(p) ==
    IF ClampedPercent(p) >= 70 THEN "GREEN"
    ELSE IF ClampedPercent(p) >= 30 THEN "YELLOW"
    ELSE "RED"

TierCount(color) ==
    Cardinality({i \in DOMAIN requirements :
                    Tier(requirements[i].match_percent) = color})

C9_TiersFromClampedPercent ==
    Scored =>
      /\ block_score.g + block_score.y + block_score.r = Len(requirements)
      /\ Len(block_score.details) = Len(requirements)
      /\ \A i \in DOMAIN requirements :
            /\ block_score.details[i].name = requirements[i].name
            /\ block_score.details[i].percent
                 = ClampedPercent(requirements[i].match_percent)
            /\ block_score.details[i].color = Tier(requirements[i].match_percent)
      /\ block_score.g = TierCount("GREEN")
      /\ block_score.y = TierCount("YELLOW")
      /\ block_score.r = TierCount("RED")

C9_Witness ==
    /\ Scored
    /\ Len(requirements) = 3
    /\ requirements[1].match_percent = 105
    /\ requirements[2].match_percent = 70
    /\ requirements[3].match_percent = 0 - 5
    /\ block_score.g = 2 /\ block_score.r = 1

----------------------------------------------------------------------------
(* Property of the comparator used by rank_items (SpecRank) *)

(* C11: the two-key comparator is transitive on item scores: for any three *)
(* scored items a, b, c, if it places a before or equal to b and b before  *)
(* or equal to c, it places a before or equal to c.                        *)
C11_CompareTransitive ==
    Ranked => \A i, j, k \in DOMAIN scores :
                 (/\ _compare(scores[i], scores[j]) <= 0
                  /\ _compare(scores[j], scores[k]) <= 0)
                 => _compare(scores[i], scores[k]) <= 0

====
